---------------------------- MODULE Spec2Model ----------------------------
(***************************************************************************)
(* Model of src/python/src/algs/manacher.py: the longest palindromic       *)
(* substring by Manacher's algorithm (manacher) and the naive oracle       *)
(* (_alt).  Python strings are TLA+ sequences of one-character strings;    *)
(* Python indices are 0-based, so PyIndex(seq, k) reads seq[k+1] and        *)
(* follows Python's rule for negative indices.  The radius list p is a      *)
(* function on 0..len(ms)-1, indexed as in the code.                        *)
(***************************************************************************)
EXTENDS Integers, Sequences, FiniteSets

VARIABLES
    s,          \* the argument of manacher
    ms,         \* the transformed string (line 24)
    l, r,       \* boundary of the rightmost palindrome (lines 26-27)
    p,          \* radius list (line 28)
    pmax, pmaxi,\* best radius and its center (lines 29-30)
    i,          \* loop variable of the for loop (line 31)
    pc,         \* position in manacher: start, for, while, update, done, error
    msp,        \* the returned string (line 48)
    steps,      \* history: executions of line 38 in this call
    stepsAt,    \* history: executions of line 38 in the current iteration
    rin         \* history: value of r when the current iteration began

vars == <<s, ms, l, r, p, pmax, pmaxi, i, pc, msp, steps, stepsAt, rin>>

\* Longest input string of the specification Spec (no reserved symbols).
MaxLen == 7
\* Longest input string of the specification SpecAny (any symbols).
MaxLenAny == 5

\* Ordinary input characters, and the three symbols manacher reserves.
Plain == {"a", "b", "c"}
Reserved == {"@", "#", "$"}
AnyChar == {"a", "b"} \cup Reserved

\* All strings over alphabet of length at most n.
StringsUpTo(alphabet, n) == UNION {[1..k -> alphabet] : k \in 0..n}

Min(a, b) == IF a < b THEN a ELSE b

--------------------------------------------------------------------------
(* Python sequence primitives *)

\* Whether seq[k] is a valid Python index expression (no IndexError).
PyValid(n, k) == k >= -n /\ k < n

\* Python seq[k], for a valid k: a negative k counts from the end.
PyIndex(seq, k) == IF k < 0 THEN seq[Len(seq) + k + 1] ELSE seq[k + 1]

\* A slice bound as Python normalises it: negative counts from the end, then clamped.
PyBound(n, k) == IF k < 0 THEN (IF k + n < 0 THEN 0 ELSE k + n) ELSE Min(k, n)

\* Python seq[a:b].
PySlice(seq, a, b) ==
    LET lo == PyBound(Len(seq), a)
        hi == PyBound(Len(seq), b)
    IN  IF lo >= hi THEN <<>> ELSE SubSeq(seq, lo + 1, hi)

\* Python sep.join(list(str)) for a one-character sep.
RECURSIVE Join(_, _)
Join(sep, str) ==
    IF Len(str) = 0 THEN <<>>
    ELSE IF Len(str) = 1 THEN str
    ELSE <<Head(str), sep>> \o Join(sep, Tail(str))

\* Python str.replace(ch, "") for a one-character ch.
RECURSIVE Remove(_, _)
Remove(ch, str) ==
    IF Len(str) = 0 THEN <<>>
    ELSE IF Head(str) = ch THEN Remove(ch, Tail(str))
    ELSE <<Head(str)>> \o Remove(ch, Tail(str))


\* Python lst[k] on the radius list: a negative k counts from the end.
PyGet(lst, k) == IF k < 0 THEN lst[k + Cardinality(DOMAIN lst)] ELSE lst[k]

--------------------------------------------------------------------------
(* manacher: the expressions of the loop body *)

\* Variant of _modify_string: the right sentinel is the left one again.
ModifySameSentinel(str) == <<"@", "#">> \o Join("#", str) \o <<"#", "@">>

\* Variant of _modify_string: no separator before the right sentinel.
ModifyNoLastSep(str) == <<"@", "#">> \o Join("#", str) \o <<"$">>

\* Lines 20-22: "@#" + "#".join(list(s)) + "#$".
_modify_string(str) == <<"@", "#">> \o Join("#", str) \o <<"#", "$">>

\* Line 32: mirror = l + r - i.
Mirror(ll, rr, ii) == ll + rr - ii

\* Variant of LoopRange: the right sentinel is visited too.
LoopRangeToEnd(str) == 1..(Len(str) - 1)

\* Line 31: the values of i, range(1, len(ms) - 1).
LoopRange(str) == 1..(Len(str) - 2)

\* Variant of SeedRadius: the mirror's radius is not cut at the boundary.
SeedRadiusNoMin(lst, ii, rr, mirror) == PyGet(lst, mirror)

\* Variant of SeedRadius: nothing is reused, every center starts from 0.
SeedRadiusNone(lst, ii, rr, mirror) == 0

\* Line 35: min(r - i, p[mirror]).
SeedRadius(lst, ii, rr, mirror) == Min(rr - ii, PyGet(lst, mirror))

\* Variant of Matches: the left index is off by one.
MatchesOffByOne(str, ii, rad) == PyIndex(str, ii + 1 + rad) = PyIndex(str, ii - rad)

\* Line 37: ms[i + 1 + p[i]] == ms[i - 1 - p[i]], both indices valid.
Matches(str, ii, rad) == PyIndex(str, ii + 1 + rad) = PyIndex(str, ii - 1 - rad)

\* Line 37: whether both index reads of the test succeed.
ReadsValid(str, ii, rad) ==
    /\ PyValid(Len(str), ii + 1 + rad)
    /\ PyValid(Len(str), ii - 1 - rad)

\* Variant of Boundary: the boundary follows every center.
BoundaryAlways(ii, rad, ll, rr) == <<ii - rad, ii + rad>>

\* Variant of Boundary: l is left behind when r advances.
BoundaryKeepsL(ii, rad, ll, rr) ==
    IF ii + rad > rr THEN <<ll, ii + rad>> ELSE <<ll, rr>>

\* Lines 40-42: the boundary <<l, r>> after the iteration at ii with radius rad.
Boundary(ii, rad, ll, rr) ==
    IF ii + rad > rr THEN <<ii - rad, ii + rad>> ELSE <<ll, rr>>

\* Variant of Best: a tie replaces the best span.
BestNonStrict(ii, rad, bm, bi) == IF bm <= rad THEN <<rad, ii>> ELSE <<bm, bi>>

\* Lines 44-46: the best span <<pmax, pmaxi>> after the iteration at ii.
Best(ii, rad, bm, bi) == IF bm < rad THEN <<rad, ii>> ELSE <<bm, bi>>

\* Variant of Extract: the separators are left in.
ExtractKeepSep(str, bm, bi) ==
    PySlice(str, bi - bm, bi) \o PySlice(str, bi, bi + bm)

\* Line 48: (ms[pmaxi-pmax:pmaxi] + ms[pmaxi:pmaxi+pmax]).replace("#", "").
Extract(str, bm, bi) ==
    Remove("#", PySlice(str, bi - bm, bi) \o PySlice(str, bi, bi + bm))

--------------------------------------------------------------------------
(* manacher: the steps *)

\* Lines 24-30: transform the input and initialise the loop state.
Call ==
    /\ pc = "start"
    /\ ms' = _modify_string(s)
    /\ l' = 0
    /\ r' = 0
    /\ p' = [k \in 0..(Len(_modify_string(s)) - 1) |-> 0]
    /\ pmax' = 0
    /\ pmaxi' = 0
    /\ i' = 1
    /\ pc' = "for"
    /\ UNCHANGED <<s, msp, steps, stepsAt, rin>>

\* Lines 31-35: enter the iteration at i; seed p[i] from the mirror when i < r.
\* p[mirror] outside the list raises IndexError.
Iterate ==
    /\ pc = "for"
    /\ i \in LoopRange(ms)
    /\ IF i < r
       THEN IF PyValid(Len(ms), Mirror(l, r, i))
            THEN /\ p' = [p EXCEPT ![i] = SeedRadius(p, i, r, Mirror(l, r, i))]
                 /\ pc' = "while"
            ELSE /\ p' = p
                 /\ pc' = "error"
       ELSE /\ p' = p
            /\ pc' = "while"
    /\ rin' = r
    /\ stepsAt' = 0
    /\ UNCHANGED <<s, ms, l, r, pmax, pmaxi, i, msp, steps>>

\* Lines 37-38: one evaluation of the while test; p[i] += 1 when it succeeds.
\* An index outside ms raises IndexError.
Expand ==
    /\ pc = "while"
    /\ IF ~ReadsValid(ms, i, p[i])
       THEN /\ pc' = "error"
            /\ UNCHANGED <<p, steps, stepsAt>>
       ELSE IF Matches(ms, i, p[i])
            THEN /\ p' = [p EXCEPT ![i] = p[i] + 1]
                 /\ steps' = steps + 1
                 /\ stepsAt' = stepsAt + 1
                 /\ pc' = "while"
            ELSE /\ pc' = "update"
                 /\ UNCHANGED <<p, steps, stepsAt>>
    /\ UNCHANGED <<s, ms, l, r, pmax, pmaxi, i, msp, rin>>

\* Lines 40-46: advance the boundary and the best span, then the next i.
Update ==
    /\ pc = "update"
    /\ l' = Boundary(i, p[i], l, r)[1]
    /\ r' = Boundary(i, p[i], l, r)[2]
    /\ pmax' = Best(i, p[i], pmax, pmaxi)[1]
    /\ pmaxi' = Best(i, p[i], pmax, pmaxi)[2]
    /\ i' = i + 1
    /\ pc' = "for"
    /\ UNCHANGED <<s, ms, p, msp, steps, stepsAt, rin>>

\* Lines 48-49: the loop is over; build and return the answer.
Return ==
    /\ pc = "for"
    /\ i \notin LoopRange(ms)
    /\ msp' = Extract(ms, pmax, pmaxi)
    /\ pc' = "done"
    /\ UNCHANGED <<s, ms, l, r, p, pmax, pmaxi, i, steps, stepsAt, rin>>

\* The state before the call, for an argument drawn from inputs.
InitWith(inputs) ==
    /\ s \in inputs
    /\ ms = <<>>
    /\ l = 0
    /\ r = 0
    /\ p = <<>>
    /\ pmax = 0
    /\ pmaxi = 0
    /\ i = 0
    /\ pc = "start"
    /\ msp = <<>>
    /\ steps = 0
    /\ stepsAt = 0
    /\ rin = 0

\* Arguments that honour the precondition: no reserved symbol.
Init == InitWith(StringsUpTo(Plain, MaxLen))

\* Arbitrary arguments, reserved symbols included.
InitAny == InitWith(StringsUpTo(AnyChar, MaxLenAny))

Next == Call \/ Iterate \/ Expand \/ Update \/ Return

Spec == Init /\ [][Next]_vars

\* manacher is sequential code: an enabled step is eventually taken.
SpecFair == Init /\ [][Next]_vars /\ WF_vars(Next)

SpecAny == InitAny /\ [][Next]_vars

--------------------------------------------------------------------------
(* _alt: the naive center-expansion oracle *)

\* Lines 57-63: expand(s, left, right), with c_max carried through the loop.
RECURSIVE expandFrom(_, _, _, _)
expandFrom(str, left, right, c_max) ==
    IF left >= 0 /\ right < Len(str) /\ PyIndex(str, left) = PyIndex(str, right)
    THEN expandFrom(str, left - 1, right + 1, PySlice(str, left, right + 1))
    ELSE c_max

expand(str, left, right) == expandFrom(str, left, right, <<>>)

\* Lines 70-73: the longer of the odd and the even palindrome at one center.
IMax(i_max_odd, i_max_even) ==
    IF Len(i_max_odd) > Len(i_max_even) THEN i_max_odd ELSE i_max_even

\* Lines 66-76: the for loop of _alt from index k on, a_max carried through.
RECURSIVE altFrom(_, _, _)
altFrom(str, k, a_max) ==
    IF k >= Len(str) THEN a_max
    ELSE LET i_max == IMax(expand(str, k, k), expand(str, k, k + 1))
         IN  altFrom(str, k + 1, IF Len(i_max) > Len(a_max) THEN i_max ELSE a_max)

\* Lines 52-78: _alt(s).
_alt(str) == altFrom(str, 0, <<>>)

--------------------------------------------------------------------------
(* Reference notions the properties are stated with *)

\* The set of characters of a string.
Chars(str) == {str[k] : k \in 1..Len(str)}

\* str reads the same forwards and backwards.
IsPalindrome(str) == \A k \in 1..Len(str) : str[k] = str[Len(str) + 1 - k]

\* The 1-based starts of the palindromic substrings of str of length n.
PalStarts(str, n) ==
    {a \in 1..(Len(str) - n + 1) : IsPalindrome(SubSeq(str, a, a + n - 1))}

\* The length of the longest palindromic substring of str.
MaxPalLen(str) ==
    CHOOSE n \in 0..Len(str) :
        /\ PalStarts(str, n) # {}
        /\ \A m \in (n + 1)..Len(str) : PalStarts(str, m) = {}

\* The smallest element of a non-empty set of integers.
Least(S) == CHOOSE a \in S : \A b \in S : a <= b

\* The largest element of a non-empty set of integers.
Greatest(S) == CHOOSE a \in S : \A b \in S : a >= b

\* str[c-k .. c+k] lies inside str and is a palindrome centered at c.
CenteredPal(str, c, k) ==
    /\ c - k >= 0
    /\ c + k <= Len(str) - 1
    /\ \A d \in 1..k : str[c - d + 1] = str[c + d + 1]

\* The call has returned.
Done == pc = "done"

\* The interior indices of ms, the centers the loop visits.
Interior == 1..(Len(ms) - 2)

\* The 0-based index in s of the first input character inside the window
\* ms[pmaxi-pmax .. pmaxi+pmax], plus one: its 1-based start in s.
WindowStart == (pmaxi - pmax) \div 2 + 1

\* The 1-based index in s of the last input character inside that window.
WindowEnd == (pmaxi + pmax) \div 2

\* The shape [ '@', '#', c0, '#', ..., c(n-1), '#', '$' ] of length 2n+3.
Shape(str, t) ==
    /\ Len(t) = 2 * Len(str) + 3
    /\ t[1] = "@"
    /\ t[Len(t)] = "$"
    /\ \A k \in 0..(Len(t) - 1) : k % 2 = 1 => t[k + 1] = "#"
    /\ \A k \in 0..(Len(str) - 1) : t[2 * k + 2 + 1] = str[k + 1]

\* The furthest index reached by a palindrome of a processed center.
MaxReach == Greatest({j + p[j] : j \in 1..(i - 1)})

--------------------------------------------------------------------------
(* Properties *)

\* C1: for every string without reserved symbols, manacher(s) returns
\* exactly the string the oracle _alt(s) returns.
C1_Equivalence == Done => msp = _alt(s)

\* C1 witness: a returned answer of length 3 with a second palindrome of
\* that length further right (the case where the two tie-breaks must agree).
C1_Witness ==
    /\ Done
    /\ Len(s) = 5
    /\ Len(msp) = 3
    /\ Cardinality(PalStarts(s, 3)) >= 2

\* C2: the length of manacher(s) is the maximum length of a palindromic
\* substring of s (0 for the empty string); none is longer.
C2_Maximal ==
    Done =>
        /\ Len(msp) = MaxPalLen(s)
        /\ \A n \in (Len(msp) + 1)..Len(s) : PalStarts(s, n) = {}

\* C2 witness: a returned answer that is a proper part of s, so that longer
\* substrings exist and none of them is a palindrome.
C2_Witness ==
    /\ Done
    /\ Len(s) = 4
    /\ Len(msp) = 2

\* C3: among the palindromic substrings of maximal length, manacher(s)
\* is the occurrence with the smallest starting index in s.
C3_Leftmost ==
    Done =>
        LET n == MaxPalLen(s)
            a == Least(PalStarts(s, n))
        IN  /\ msp = SubSeq(s, a, a + n - 1)
            /\ n > 0 => WindowStart = a

\* C3 witness: "babac" (the spec's "babad"): "bab" and "aba" tie, "bab" wins.
C3_Witness ==
    /\ Done
    /\ s = <<"b", "a", "b", "a", "c">>
    /\ msp = <<"b", "a", "b">>
    /\ PalStarts(s, 3) = {1, 2}

\* C4: manacher(s) is a contiguous substring of s and a palindrome; the
\* extraction holds no sentinel or separator and is exactly the input
\* characters inside the window ms[pmaxi-pmax .. pmaxi+pmax].
C4_SubstringPalindrome ==
    Done =>
        /\ IsPalindrome(msp)
        /\ \E a \in 1..(Len(s) + 1) : msp = SubSeq(s, a, a + Len(msp) - 1)
        /\ Chars(msp) \cap Reserved = {}
        /\ msp = SubSeq(s, WindowStart, WindowEnd)

\* C4 witness: an even-length answer strictly inside s (center on a separator).
C4_Witness ==
    /\ Done
    /\ s = <<"c", "b", "b", "a">>
    /\ msp = <<"b", "b">>
    /\ PyIndex(ms, pmaxi) = "#"

\* C5: on inputs without reserved symbols (the empty string included) the
\* call never raises: the two indices of the expansion test lie in
\* 0..len(ms)-1, the mirror of a seeded center lies in 1..i-1, and the
\* call returns.
C5_NoRaise ==
    /\ [](pc = "while" =>
            /\ i + 1 + p[i] \in 0..(Len(ms) - 1)
            /\ i - 1 - p[i] \in 0..(Len(ms) - 1))
    /\ []((pc = "for" /\ i \in LoopRange(ms) /\ i < r) =>
            Mirror(l, r, i) \in 1..(i - 1))
    /\ [](pc # "error")
    /\ <>Done

\* C5 witness: a seeded center (i < r at entry) whose test reads the right
\* sentinel at the last index of ms.
C5_Witness ==
    /\ pc = "while"
    /\ i < rin
    /\ p[i] > 0
    /\ i + 1 + p[i] = Len(ms) - 1

\* C6 as stated: an input holding a reserved symbol never ends in an error.
C6_Original == (Chars(s) \cap Reserved # {}) => pc # "error"

\* C6 amended: an input holding '@' or '#' but no '$' never ends in an
\* error; the call returns a string.
C6_NoDollarNoError ==
    (Chars(s) \cap Reserved # {} /\ "$" \notin Chars(s)) => pc # "error"

\* C6 witness: "a@" returns "@a" without an error, the left sentinel
\* having matched the input's '@'.
C6_Witness ==
    /\ Done
    /\ s = <<"a", "@">>
    /\ msp = <<"@", "a">>

\* C7 as stated: for every input, the empty one included, ms has length
\* 2n+3 and the shape [ '@', '#', c0, '#', ..., c(n-1), '#', '$' ].
C7_Original == pc # "start" => Shape(s, ms)

\* C7 amended: for every input of length n >= 1, ms has length 2n+3 and
\* that shape; for the empty input ms is "@##$", of length 4.
C7_ShapeNonEmpty ==
    pc # "start" =>
        IF Len(s) = 0 THEN ms = <<"@", "#", "#", "$">> ELSE Shape(s, ms)

\* C7 witness: a two-character input holding a reserved symbol, transformed
\* to seven characters.
C7_Witness ==
    /\ pc = "for"
    /\ s = <<"#", "b">>
    /\ ms = <<"@", "#", "#", "#", "b", "#", "$">>

\* C8: when the loop has finished every interior p[i] is the exact maximal
\* radius (a palindrome around i, and the next pair of characters differs);
\* at every moment p[i] is the radius of a palindrome around i (so a seed
\* is never too large); and no p[i] ever decreases.
C8_ExactRadii ==
    /\ [](Done => \A c \in Interior :
            /\ CenteredPal(ms, c, p[c])
            /\ c - p[c] - 1 >= 0
            /\ c + p[c] + 1 <= Len(ms) - 1
            /\ PyIndex(ms, c - p[c] - 1) # PyIndex(ms, c + p[c] + 1))
    /\ [](\A c \in DOMAIN p : CenteredPal(ms, c, p[c]))
    /\ [][\A c \in DOMAIN p : p'[c] >= p[c]]_vars

\* C8 witness: a center whose seed was the mirror's radius cut at the
\* boundary (p[mirror] > r - i), and the cut value is its final radius.
C8_Witness ==
    /\ pc = "update"
    /\ i < rin
    /\ p[Mirror(l, r, i)] > r - i
    /\ p[i] = r - i

\* C9 as stated: the successful expansion steps of one call number at most n.
C9_Original == steps <= Len(s)

\* C9 amended: the successful expansion steps of one call number at most
\* 2n-1 for n >= 1, and 0 for the empty input.
C9_LinearSteps == steps <= (IF Len(s) = 0 THEN 0 ELSE 2 * Len(s) - 1)

\* C9 witness: a call that returned after exactly 2n-1 steps, more than n.
C9_Witness ==
    /\ Done
    /\ Len(s) >= 3
    /\ steps = 2 * Len(s) - 1

\* C10: after each iteration r is at least its old value plus the steps
\* made in the iteration, equals the furthest reach j+p[j] of the
\* processed centers, and ms[l..r] is a palindrome; r stays at most
\* len(ms)-1 and never decreases.
C10_Boundary ==
    /\ []((pc \in {"for", "done"} /\ i > 1) =>
            /\ r >= rin + stepsAt
            /\ r = MaxReach
            /\ (l + r) % 2 = 0
            /\ CenteredPal(ms, (l + r) \div 2, (r - l) \div 2))
    /\ [](pc # "start" => r <= Len(ms) - 1)
    /\ [][r' >= r]_vars

\* C10 witness: an iteration that began inside the boundary, made steps,
\* and moved r by exactly that many.
C10_Witness ==
    /\ pc = "for"
    /\ i - 1 < rin
    /\ stepsAt >= 2
    /\ r = rin + stepsAt

==========================================================================
